---- MODULE Spec2Model ----
(***************************************************************************)
(* DetectTokensController (app/scripts/controllers/detect-tokens.js).      *)
(*                                                                         *)
(* The controller polls a token catalog for tokens the selected account    *)
(* holds but has not added.  The model's state is the controller's fields, *)
(* the live timers, the pipeline executions (detectNewTokens calls) that   *)
(* are suspended at an await, and the external collaborators' state the    *)
(* controller reads (catalog, chain id, detected-token store).             *)
(***************************************************************************)
EXTENDS Integers, Sequences, FiniteSets, TLC

\* ---------------------------------------------------------------- bounds
\* Token contracts of the small catalogs (Spec).
NumTokens == 2
\* Pipeline executions that may be suspended at an await at the same time.
MaxRuns == 2
\* Timer ids the host hands out.
MaxTimers == 2
\* External events (notifications, assignments) in one behaviour of Spec.
MaxEvents == 3
\* Token contracts of the catalogs of ResolverSpec.
ResolverTokens == 3

\* ------------------------------------------------------- program constants
\* MINUTE * 3, in milliseconds.
DEFAULT_INTERVAL == 180000
\* tokensToDetect.slice(0, 1000), tokensToDetect.slice(1000, ...)
SLICE_SIZE == 1000

\* ------------------------------------------------------------- addresses
\* An address is <<contract, form>>: the same contract written in lower case
\* ("lc") or in mixed-case checksum form ("cs").
Forms == {"lc", "cs"}

Addr(n, f) == <<n, f>>

\* String.prototype.toLowerCase on an address.
ToLowerCase(a) == <<a[1], "lc">>

\* shared/modules/string-utils: both strings, compared in lower case.
IsEqualCaseInsensitive(value1, value2) == ToLowerCase(value1) = ToLowerCase(value2)

\* The selected account: none ("undefined"), or one of two accounts.
NoAccount == "undefined"
Accounts == {"acc1", "acc2"}

\* shared/modules/network.utils: the chain ids token detection supports.
IsTokenDetectionEnabledForNetwork(chain) == chain \in {"0x1", "0x38"}
ChainIds == {"0x1", "0x3"}

Collaborators ==
    {"preferences", "network", "keyringMemStore", "tokenList",
     "tokensController", "assetsContractController", "trackMetaMetricsEvent"}

\* ------------------------------------------------------------ sequences
Range(s) == {s[i] : i \in 1..Len(s)}

Min(a, b) == IF a < b THEN a ELSE b
Max(a, b) == IF a > b THEN a ELSE b

\* Array.prototype.slice(start, end): negative indices count from the end,
\* both are clamped to the array, an empty range gives an empty array.
JsSlice(s, start, end) ==
    LET len == Len(s)
        k == IF start < 0 THEN Max(len + start, 0) ELSE Min(start, len)
        f == IF end < 0 THEN Max(len + end, 0) ELSE Min(end, len)
    IN  IF k < f THEN SubSeq(s, k + 1, f) ELSE <<>>

\* ----------------------------------------------------------------- state
VARIABLES
    deps,               \* the collaborators the constructor was given
    isOpen,             \* this.isOpen, assigned by the owner of the controller
    isUnlocked,         \* this.isUnlocked: "undefined", then "true" or "false"
    selectedAddress,    \* this.selectedAddress
    useTokenDetection,  \* this.useTokenDetection
    tokenAddresses,     \* this.tokenAddresses (held)
    hiddenTokens,       \* this.hiddenTokens
    detectedTokens,     \* this.detectedTokens (their addresses)
    tokenList,          \* this._tokenList.state.tokenList: the catalog's keys in order
    chainId,            \* this._network.store.getState().provider.chainId
    timers,             \* the host's live repeating timers
    handle,             \* this._handle (0: undefined)
    runs,               \* the detectNewTokens executions suspended at an await
    detectedStore,      \* addresses written to the detected-token store
    events,             \* external events delivered so far
    lastOp              \* the handler that ran last, its input and its outcome

vars ==
    <<deps, isOpen, isUnlocked, selectedAddress, useTokenDetection,
      tokenAddresses, hiddenTokens, detectedTokens, tokenList, chainId,
      timers, handle, runs, detectedStore, events, lastOp>>

\* What the controller keeps: everything but the bookkeeping of the model.
ctrlVars ==
    <<isOpen, isUnlocked, selectedAddress, useTokenDetection,
      tokenAddresses, hiddenTokens, detectedTokens, timers, handle, runs>>

LcAddrs(n) == {Addr(c, "lc") : c \in 1..n}
CsAddrs(n) == {Addr(c, "cs") : c \in 1..n}

\* Catalogs over n contracts: every list of distinct contracts, keyed in lower
\* case, and the list of all of them keyed in checksum form.
CatalogsOf(n) ==
    {c \in UNION {[1..k -> LcAddrs(n)] : k \in 0..n} :
        \A i, j \in 1..Len(c) : i # j => c[i] # c[j]}
    \cup {[i \in 1..n |-> Addr(i, "cs")]}

\* The states of the known-token store over n contracts: held and hidden in
\* checksum form, detected as the catalog gave them, no contract in two lists.
TokenStatesOf(n) ==
    {s \in [tokens : SUBSET CsAddrs(n), ignoredTokens : SUBSET CsAddrs(n),
            detectedTokens : SUBSET LcAddrs(n)] :
        \A c \in 1..n :
            Cardinality({k \in {"t", "i", "d"} :
                \/ k = "t" /\ Addr(c, "cs") \in s.tokens
                \/ k = "i" /\ Addr(c, "cs") \in s.ignoredTokens
                \/ k = "d" /\ Addr(c, "lc") \in s.detectedTokens}) <= 1}

Catalogs == CatalogsOf(NumTokens)
TokenStates == TokenStatesOf(NumTokens)

Op(op, arg, res) == [op |-> op, arg |-> arg, res |-> res]

\* ------------------------------------------------------------ the pipeline
\* isActive without the session test.
IsActiveOpenOnly(open, unlocked) == open

\* get isActive
IsActive(open, unlocked) == open /\ unlocked = "true"

\* The loop with the addresses compared as written.
TokensToDetectExact(list, held, hidden, detected) ==
    SelectSeq(list, LAMBDA tokenAddress :
        tokenAddress \notin held \cup hidden \cup detected)

\* The loop without the test of the detected tokens.
TokensToDetectNoDetected(list, held, hidden, detected) ==
    SelectSeq(list, LAMBDA tokenAddress :
        /\ ~ \E address \in held : IsEqualCaseInsensitive(address, tokenAddress)
        /\ ~ \E address \in hidden : IsEqualCaseInsensitive(address, tokenAddress))

\* The loop of lines 98-112: the catalog's keys, in order, that match no held,
\* hidden or detected address.
TokensToDetect(list, held, hidden, detected) ==
    SelectSeq(list, LAMBDA tokenAddress :
        /\ ~ \E address \in held : IsEqualCaseInsensitive(address, tokenAddress)
        /\ ~ \E address \in hidden : IsEqualCaseInsensitive(address, tokenAddress)
        /\ ~ \E address \in detected : IsEqualCaseInsensitive(address, tokenAddress))

\* Lines 113-116.
SliceOfTokensToDetect(tokensToDetect) ==
    << JsSlice(tokensToDetect, 0, SLICE_SIZE),
       JsSlice(tokensToDetect, SLICE_SIZE, Len(tokensToDetect) - 1) >>

\* The call of line 120: the account is read when the call is made.
OracleCall(account, tokensSlice) == [account |-> account, tokens |-> tokensSlice]

\* An execution that makes the calls for both slices at once.
NewRunFanOut(sel, trig) ==
    LET tokensToDetect ==
            TokensToDetect(tokenList, tokenAddresses, hiddenTokens, detectedTokens)
    IN  [ tokensToDetect |-> tokensToDetect,
          idx     |-> 1,
          pc      |-> "oracle",
          calls   |-> << OracleCall(sel, SliceOfTokensToDetect(tokensToDetect)[1]),
                         OracleCall(sel, SliceOfTokensToDetect(tokensToDetect)[2]) >>,
          replies |-> << >>,
          tracked |-> << >>,
          writes  |-> << >>,
          trigger |-> trig,
          account0 |-> sel ]

\* A pipeline execution at its first await.
NewRun(sel, trig) ==
    LET tokensToDetect ==
            TokensToDetect(tokenList, tokenAddresses, hiddenTokens, detectedTokens)
    IN  [ tokensToDetect |-> tokensToDetect,
          idx     |-> 1,
          pc      |-> "oracle",
          calls   |-> << OracleCall(sel, SliceOfTokensToDetect(tokensToDetect)[1]) >>,
          replies |-> << >>,
          tracked |-> << >>,
          writes  |-> << >>,
          trigger |-> trig,
          account0 |-> sel ]

\* detectNewTokens without the test of the useTokenDetection preference.
DetectNewTokensAnyPreference(rs, unlocked, sel, utd, trig) ==
    IF ~ IsActive(isOpen, unlocked) THEN [runs |-> rs, res |-> "gated"]
    ELSE IF "network" \notin deps THEN [runs |-> rs, res |-> "threw"]
    ELSE IF ~ IsTokenDetectionEnabledForNetwork(chainId)
        THEN [runs |-> rs, res |-> "disabled"]
    ELSE IF "tokenList" \notin deps THEN [runs |-> rs, res |-> "threw"]
    ELSE IF "tokensController" \notin deps /\ tokenList # << >>
        THEN [runs |-> rs, res |-> "threw"]
    ELSE IF "assetsContractController" \notin deps
        THEN [runs |-> rs, res |-> "warned"]
    ELSE IF Len(rs) >= MaxRuns THEN [runs |-> rs, res |-> "capped"]
    ELSE [runs |-> Append(rs, NewRun(sel, trig)), res |-> "started"]

\* detectNewTokens up to its first await, called with the runs in flight and
\* the fields its caller has just set: the runs afterwards and the outcome.
DetectNewTokens(rs, unlocked, sel, utd, trig) ==
    IF ~ IsActive(isOpen, unlocked) THEN [runs |-> rs, res |-> "gated"]
    ELSE IF ~ utd THEN [runs |-> rs, res |-> "disabled"]
    ELSE IF "network" \notin deps THEN [runs |-> rs, res |-> "threw"]
    ELSE IF ~ IsTokenDetectionEnabledForNetwork(chainId)
        THEN [runs |-> rs, res |-> "disabled"]
    ELSE IF "tokenList" \notin deps THEN [runs |-> rs, res |-> "threw"]
    ELSE IF "tokensController" \notin deps /\ tokenList # << >>
        THEN [runs |-> rs, res |-> "threw"]
    ELSE IF "assetsContractController" \notin deps
        THEN [runs |-> rs, res |-> "warned"]
    ELSE IF Len(rs) >= MaxRuns THEN [runs |-> rs, res |-> "capped"]
    ELSE [runs |-> Append(rs, NewRun(sel, trig)), res |-> "started"]

\* The host's next timer id.
FreshId(ts) == CHOOSE id \in 1..MaxTimers :
    /\ \A t \in ts : t.id # id
    /\ \A other \in 1..MaxTimers : (\A t \in ts : t.id # other) => id <= other

\* set interval without the clearInterval of line 186.
SetIntervalToNoClear(ts, h, interval) ==
    IF interval = 0
    THEN [timers |-> ts, handle |-> h, ok |-> TRUE]
    ELSE IF \A id \in 1..MaxTimers : \E t \in ts : t.id = id
    THEN [timers |-> ts, handle |-> h, ok |-> FALSE]
    ELSE [timers |-> ts \cup {[id |-> FreshId(ts), period |-> interval]},
          handle |-> FreshId(ts), ok |-> TRUE]

\* set interval
SetIntervalTo(ts, h, interval) ==
    LET cleared == IF h # 0 THEN {t \in ts : t.id # h} ELSE ts
    IN  IF interval = 0
        THEN [timers |-> cleared, handle |-> h, ok |-> TRUE]
        ELSE IF \A id \in 1..MaxTimers : \E t \in cleared : t.id = id
        THEN [timers |-> cleared, handle |-> h, ok |-> FALSE]
        ELSE [timers |-> cleared \cup {[id |-> FreshId(cleared), period |-> interval]},
              handle |-> FreshId(cleared), ok |-> TRUE]

\* restartTokenDetection without the test of the selected account.
RestartTokenDetectionAnyAccount(unlocked, sel, utd, trig) ==
    IF ~ IsActive(isOpen, unlocked)
    THEN [runs |-> runs, res |-> "norestart", timers |-> timers, handle |-> handle,
          ok |-> TRUE]
    ELSE LET d == DetectNewTokens(runs, unlocked, sel, utd, trig)
             t == SetIntervalTo(timers, handle, DEFAULT_INTERVAL)
         IN  [runs |-> d.runs, res |-> d.res, timers |-> t.timers,
              handle |-> t.handle, ok |-> t.ok /\ d.res # "capped"]

\* restartTokenDetection, with the fields its caller has just set.
RestartTokenDetection(unlocked, sel, utd, trig) ==
    IF ~ (IsActive(isOpen, unlocked) /\ sel # NoAccount)
    THEN [runs |-> runs, res |-> "norestart", timers |-> timers, handle |-> handle,
          ok |-> TRUE]
    ELSE LET d == DetectNewTokens(runs, unlocked, sel, utd, trig)
             t == SetIntervalTo(timers, handle, DEFAULT_INTERVAL)
         IN  [runs |-> d.runs, res |-> d.res, timers |-> t.timers,
              handle |-> t.handle, ok |-> t.ok /\ d.res # "capped"]

\* The loop's step with the candidates resolved again for every batch.
NextBatchResolvedAgain(r) ==
    LET slices == SliceOfTokensToDetect(
                      TokensToDetect(tokenList, tokenAddresses, hiddenTokens,
                                     detectedTokens))
    IN  IF r.idx < Len(slices)
        THEN << [r EXCEPT !.idx = @ + 1, !.pc = "oracle",
                          !.calls = Append(@, OracleCall(selectedAddress, slices[r.idx + 1]))] >>
        ELSE << >>

\* The loop's step after batch r.idx is dealt with: the call for the next batch,
\* made for the account selected now, or the end of the execution.
NextBatch(r) ==
    LET slices == SliceOfTokensToDetect(r.tokensToDetect)
    IN  IF r.idx < Len(slices)
        THEN << [r EXCEPT !.idx = @ + 1, !.pc = "oracle",
                          !.calls = Append(@, OracleCall(selectedAddress, slices[r.idx + 1]))] >>
        ELSE << >>

\* runs with its i-th execution replaced by rs (one execution, or none).
Splice(i, rs) == SubSeq(runs, 1, i - 1) \o rs \o SubSeq(runs, i + 1, Len(runs))

\* ------------------------------------------------------------ construction
\* constructor: the fields after `new DetectTokensController(config)`.
Constructed(given, interval, prefs, tokensState, catalog, chain) ==
    /\ deps = given
    /\ isOpen = FALSE
    /\ isUnlocked = "undefined"
    /\ selectedAddress = IF "preferences" \in given THEN prefs.selectedAddress ELSE NoAccount
    /\ useTokenDetection = IF "preferences" \in given THEN prefs.useTokenDetection ELSE FALSE
    /\ tokenAddresses = IF "tokensController" \in given THEN tokensState.tokens ELSE {}
    /\ hiddenTokens = IF "tokensController" \in given THEN tokensState.ignoredTokens ELSE {}
    /\ detectedTokens = IF "tokensController" \in given THEN tokensState.detectedTokens ELSE {}
    /\ tokenList = catalog
    /\ chainId = chain
    /\ timers = SetIntervalTo({}, 0, interval).timers
    /\ handle = SetIntervalTo({}, 0, interval).handle
    /\ runs = << >>
    /\ detectedStore = tokensState.detectedTokens
    /\ events = 0
    /\ lastOp = Op("constructor", interval, "ok")

Init ==
    \E given \in {Collaborators} \cup {Collaborators \ {c} : c \in Collaborators},
       interval \in {0, DEFAULT_INTERVAL},
       sel \in {NoAccount, "acc1"},
       catalog \in Catalogs :
        Constructed(given, interval,
                    [selectedAddress |-> sel, useTokenDetection |-> TRUE],
                    [tokens |-> {}, ignoredTokens |-> {}, detectedTokens |-> {}],
                    catalog, "0x1")

\* --------------------------------------------------------------- handlers
\* The timer callback of set interval.
Tick(t) ==
    LET d == DetectNewTokens(runs, isUnlocked, selectedAddress, useTokenDetection, "timer")
    IN  /\ t \in timers
        /\ d.res # "capped"
        /\ runs' = d.runs
        /\ lastOp' = Op("tick", t.id, d.res)
        /\ UNCHANGED <<deps, isOpen, isUnlocked, selectedAddress, useTokenDetection,
                       tokenAddresses, hiddenTokens, detectedTokens, tokenList,
                       chainId, timers, handle, detectedStore, events>>

\* restartTokenDetection, called by the owner of the controller.
Restart ==
    LET r == RestartTokenDetection(isUnlocked, selectedAddress, useTokenDetection, "restart")
    IN  /\ events < MaxEvents
        /\ r.ok
        /\ events' = events + 1
        /\ runs' = r.runs
        /\ timers' = r.timers
        /\ handle' = r.handle
        /\ lastOp' = Op("restart", "manual", r.res)
        /\ UNCHANGED <<deps, isOpen, isUnlocked, selectedAddress, useTokenDetection,
                       tokenAddresses, hiddenTokens, detectedTokens, tokenList,
                       chainId, detectedStore>>

\* The subscription without its test: every notification restarts.
PrefChangedAlways(sel, utd) == TRUE

\* The test of lines 58-61.
PrefChanged(sel, utd) == selectedAddress # sel \/ useTokenDetection # utd

\* The preferences subscription (lines 57-66).
PrefNotify(sel, utd) ==
    LET changed == PrefChanged(sel, utd)
        r == IF changed
             THEN RestartTokenDetection(isUnlocked, sel, utd, "restart")
             ELSE [runs |-> runs, res |-> "same", timers |-> timers,
                   handle |-> handle, ok |-> TRUE]
    IN  /\ "preferences" \in deps
        /\ events < MaxEvents
        /\ r.ok
        /\ events' = events + 1
        /\ selectedAddress' = IF changed THEN sel ELSE selectedAddress
        /\ useTokenDetection' = IF changed THEN utd ELSE useTokenDetection
        /\ runs' = r.runs
        /\ timers' = r.timers
        /\ handle' = r.handle
        /\ lastOp' = Op("preferences", <<sel, utd>>, r.res)
        /\ UNCHANGED <<deps, isOpen, isUnlocked, tokenAddresses, hiddenTokens,
                       detectedTokens, tokenList, chainId, detectedStore>>

\* The tokensController subscription (lines 67-75).
TokensNotify(s) ==
    /\ "tokensController" \in deps
    /\ events < MaxEvents
    /\ events' = events + 1
    /\ tokenAddresses' = s.tokens
    /\ hiddenTokens' = s.ignoredTokens
    /\ detectedTokens' = s.detectedTokens
    /\ lastOp' = Op("tokens", s, "mirrored")
    /\ UNCHANGED <<deps, isOpen, isUnlocked, selectedAddress, useTokenDetection,
                   tokenList, chainId, timers, handle, runs, detectedStore>>

\* The keyringMemStore subscription (lines 216-223).
SessionNotify(u) ==
    LET r == IF isUnlocked # u /\ u = "true"
             THEN RestartTokenDetection(u, selectedAddress, useTokenDetection, "restart")
             ELSE [runs |-> runs, res |-> IF isUnlocked # u THEN "locked" ELSE "same",
                   timers |-> timers, handle |-> handle, ok |-> TRUE]
    IN  /\ "keyringMemStore" \in deps
        /\ events < MaxEvents
        /\ r.ok
        /\ events' = events + 1
        /\ isUnlocked' = u
        /\ runs' = r.runs
        /\ timers' = r.timers
        /\ handle' = r.handle
        /\ lastOp' = Op("session", u, r.res)
        /\ UNCHANGED <<deps, isOpen, selectedAddress, useTokenDetection,
                       tokenAddresses, hiddenTokens, detectedTokens, tokenList,
                       chainId, detectedStore>>

\* controller.isOpen = open, by the owner of the controller.
SetIsOpen(open) ==
    /\ events < MaxEvents
    /\ events' = events + 1
    /\ isOpen' = open
    /\ lastOp' = Op("isOpen", open, "set")
    /\ UNCHANGED <<deps, isUnlocked, selectedAddress, useTokenDetection,
                   tokenAddresses, hiddenTokens, detectedTokens, tokenList,
                   chainId, timers, handle, runs, detectedStore>>

\* controller.interval = interval, by the owner of the controller.
SetInterval(interval) ==
    LET t == SetIntervalTo(timers, handle, interval)
    IN  /\ events < MaxEvents
        /\ t.ok
        /\ events' = events + 1
        /\ timers' = t.timers
        /\ handle' = t.handle
        /\ lastOp' = Op("interval", interval, "set")
        /\ UNCHANGED <<deps, isOpen, isUnlocked, selectedAddress, useTokenDetection,
                       tokenAddresses, hiddenTokens, detectedTokens, tokenList,
                       chainId, runs, detectedStore>>

\* The catalog collaborator replaces its token list.
CatalogRefresh(catalog) ==
    /\ events < MaxEvents
    /\ events' = events + 1
    /\ tokenList' = catalog
    /\ lastOp' = Op("catalog", catalog, "set")
    /\ UNCHANGED <<deps, isOpen, isUnlocked, selectedAddress, useTokenDetection,
                   tokenAddresses, hiddenTokens, detectedTokens, chainId,
                   timers, handle, runs, detectedStore>>

\* The network collaborator switches chain.
NetworkChange(chain) ==
    /\ events < MaxEvents
    /\ events' = events + 1
    /\ chainId' = chain
    /\ lastOp' = Op("network", chain, "set")
    /\ UNCHANGED <<deps, isOpen, isUnlocked, selectedAddress, useTokenDetection,
                   tokenAddresses, hiddenTokens, detectedTokens, tokenList,
                   timers, handle, runs, detectedStore>>

\* ------------------------------------------------------ the awaits resume
\* Lines 132-150: the descriptors of the addresses the oracle reported; a
\* descriptor's address is its catalog key.  A falsy reply gives nothing.
TokensWithBalance(result) == IF result.truthy THEN result.keys ELSE {}

\* What the oracle may answer to the call outstanding in r.
Replies(r) ==
    {[truthy |-> FALSE, keys |-> {}]}
    \cup {[truthy |-> TRUE, keys |-> k] : k \in SUBSET Range(r.calls[Len(r.calls)].tokens)}

\* getBalancesInSingleCall resolves with result (lines 120-164).
OracleReply(i, result) ==
    LET r == [runs[i] EXCEPT !.replies = Append(@, result.keys)]
        tokensWithBalance == TokensWithBalance(result)
    IN  /\ r.pc = "oracle"
        /\ IF tokensWithBalance = {}
           THEN /\ runs' = Splice(i, NextBatch(r))
                /\ lastOp' = Op("reply", <<i, r.idx>>,
                                IF NextBatch(r) = << >> THEN "done" ELSE "next")
           ELSE IF "trackMetaMetricsEvent" \notin deps
           THEN /\ runs' = Splice(i, << >>)
                /\ lastOp' = Op("reply", <<i, r.idx>>, "threw")
           ELSE /\ runs' = Splice(i, << [r EXCEPT !.pc = "store",
                                            !.tracked = Append(@, tokensWithBalance),
                                            !.writes = Append(@, tokensWithBalance)] >>)
                /\ lastOp' = Op("reply", <<i, r.idx>>, "write")
        /\ UNCHANGED <<deps, isOpen, isUnlocked, selectedAddress, useTokenDetection,
                       tokenAddresses, hiddenTokens, detectedTokens, tokenList,
                       chainId, timers, handle, detectedStore, events>>

\* The catch block without its return: the loop goes on to the next batch.
OracleFailContinue(i) ==
    /\ runs[i].pc = "oracle"
    /\ runs' = Splice(i, NextBatch(runs[i]))
    /\ lastOp' = Op("fail", <<i, runs[i].idx>>, "warned")
    /\ UNCHANGED <<deps, isOpen, isUnlocked, selectedAddress, useTokenDetection,
                   tokenAddresses, hiddenTokens, detectedTokens, tokenList,
                   chainId, timers, handle, detectedStore, events>>

\* getBalancesInSingleCall rejects: warn and return (lines 124-130).
OracleFail(i) ==
    /\ runs[i].pc = "oracle"
    /\ runs' = Splice(i, << >>)
    /\ lastOp' = Op("fail", <<i, runs[i].idx>>, "warned")
    /\ UNCHANGED <<deps, isOpen, isUnlocked, selectedAddress, useTokenDetection,
                   tokenAddresses, hiddenTokens, detectedTokens, tokenList,
                   chainId, timers, handle, detectedStore, events>>

\* addDetectedTokens resolves (line 162): the store holds the tokens, the loop
\* goes on.
StoreDone(i) ==
    LET r == runs[i]
    IN  /\ r.pc = "store"
        /\ detectedStore' = detectedStore \cup r.writes[Len(r.writes)]
        /\ runs' = Splice(i, NextBatch(r))
        /\ lastOp' = Op("stored", <<i, r.idx>>,
                        IF NextBatch(r) = << >> THEN "done" ELSE "next")
        /\ UNCHANGED <<deps, isOpen, isUnlocked, selectedAddress, useTokenDetection,
                       tokenAddresses, hiddenTokens, detectedTokens, tokenList,
                       chainId, timers, handle, events>>

\* The rejection caught like the oracle's: a warning, and the loop goes on.
StoreFailSwallowed(i) ==
    /\ runs[i].pc = "store"
    /\ runs' = Splice(i, NextBatch(runs[i]))
    /\ lastOp' = Op("storefail", <<i, runs[i].idx>>, "warned")
    /\ UNCHANGED <<deps, isOpen, isUnlocked, selectedAddress, useTokenDetection,
                   tokenAddresses, hiddenTokens, detectedTokens, tokenList,
                   chainId, timers, handle, detectedStore, events>>

\* addDetectedTokens rejects (line 162): detectNewTokens rejects.
StoreFail(i) ==
    /\ runs[i].pc = "store"
    /\ runs' = Splice(i, << >>)
    /\ lastOp' = Op("storefail", <<i, runs[i].idx>>, "rejected")
    /\ UNCHANGED <<deps, isOpen, isUnlocked, selectedAddress, useTokenDetection,
                   tokenAddresses, hiddenTokens, detectedTokens, tokenList,
                   chainId, timers, handle, detectedStore, events>>

\* ---------------------------------------------------------- specification
Next ==
    \/ \E t \in timers : Tick(t)
    \/ Restart
    \/ \E sel \in Accounts \cup {NoAccount}, utd \in BOOLEAN : PrefNotify(sel, utd)
    \/ \E s \in TokenStates : TokensNotify(s)
    \/ \E u \in {"true", "false"} : SessionNotify(u)
    \/ \E open \in BOOLEAN : SetIsOpen(open)
    \/ \E interval \in {0, DEFAULT_INTERVAL} : SetInterval(interval)
    \/ \E catalog \in Catalogs : CatalogRefresh(catalog)
    \/ \E chain \in ChainIds : NetworkChange(chain)
    \/ \E i \in 1..Len(runs) : \E result \in Replies(runs[i]) : OracleReply(i, result)
    \/ \E i \in 1..Len(runs) : OracleFail(i)
    \/ \E i \in 1..Len(runs) : StoreDone(i)
    \/ \E i \in 1..Len(runs) : StoreFail(i)

Spec == Init /\ [][Next]_vars

\* ------------------------------------------------- the Fetcher on long lists
\* Catalog lengths around the slice boundaries.
FetchSizes == {0, 1, 1000, 1001, 2000, 2500}

LongCatalog(n) == [i \in 1..n |-> Addr(i, "lc")]

\* A popup that is open and unlocked on mainnet, with a long catalog and no
\* known token.
InitFetch ==
    \E n \in FetchSizes :
        /\ deps = Collaborators
        /\ isOpen = TRUE
        /\ isUnlocked = "true"
        /\ selectedAddress = "acc1"
        /\ useTokenDetection = TRUE
        /\ tokenAddresses = {}
        /\ hiddenTokens = {}
        /\ detectedTokens = {}
        /\ tokenList = LongCatalog(n)
        /\ chainId = "0x1"
        /\ timers = SetIntervalTo({}, 0, DEFAULT_INTERVAL).timers
        /\ handle = SetIntervalTo({}, 0, DEFAULT_INTERVAL).handle
        /\ runs = << >>
        /\ detectedStore = {}
        /\ events = 0
        /\ lastOp = Op("session", "true", "norestart")

\* The oracle reports nothing, or the first token of the batch.
FetchReplies(r) ==
    LET tokens == r.calls[Len(r.calls)].tokens
    IN  {[truthy |-> FALSE, keys |-> {}], [truthy |-> TRUE, keys |-> {}]}
        \cup {[truthy |-> TRUE, keys |-> {tokens[j]}] : j \in {1} \cap DOMAIN tokens}

\* The detected mirror holds all the store holds but what own wrote.
Mirrored(own) ==
    \A a \in detectedStore \ own :
        \E d \in detectedTokens : IsEqualCaseInsensitive(d, a)

\* The detected-token store tells its subscribers what it holds.
StoreState ==
    [tokens |-> tokenAddresses, ignoredTokens |-> hiddenTokens,
     detectedTokens |-> detectedTokens \cup detectedStore]

\* The ticks of FetchSpec are far enough apart for an execution to end before
\* the next one starts, and the store notifies of what it was given between
\* executions.
NextFetch ==
    \/ \E t \in timers : runs = << >> /\ Tick(t)
    \/ runs = << >> /\ ~ Mirrored({}) /\ TokensNotify(StoreState)
    \/ \E i \in 1..Len(runs) : \E result \in FetchReplies(runs[i]) : OracleReply(i, result)
    \/ \E i \in 1..Len(runs) : OracleFail(i)
    \/ \E i \in 1..Len(runs) : StoreDone(i)
    \/ \E i \in 1..Len(runs) : StoreFail(i)

FetchSpec == InitFetch /\ [][NextFetch]_vars

\* ------------------------------------------------- the Resolver on all inputs
\* An open, unlocked popup with any catalog and any known-token lists over
\* ResolverTokens contracts.
InitResolver ==
    \E catalog \in CatalogsOf(ResolverTokens), s \in TokenStatesOf(ResolverTokens) :
        /\ deps = Collaborators
        /\ isOpen = TRUE
        /\ isUnlocked = "true"
        /\ selectedAddress = "acc1"
        /\ useTokenDetection = TRUE
        /\ tokenAddresses = s.tokens
        /\ hiddenTokens = s.ignoredTokens
        /\ detectedTokens = s.detectedTokens
        /\ tokenList = catalog
        /\ chainId = "0x1"
        /\ timers = SetIntervalTo({}, 0, DEFAULT_INTERVAL).timers
        /\ handle = SetIntervalTo({}, 0, DEFAULT_INTERVAL).handle
        /\ runs = << >>
        /\ detectedStore = s.detectedTokens
        /\ events = 0
        /\ lastOp = Op("session", "true", "norestart")

NextResolver ==
    \/ \E t \in timers : runs = << >> /\ Tick(t)
    \/ \E i \in 1..Len(runs) : OracleReply(i, [truthy |-> TRUE, keys |-> {}])
    \/ \E i \in 1..Len(runs) : OracleFail(i)

ResolverSpec == InitResolver /\ [][NextResolver]_vars

\* ------------------------------------- changes while an execution is in flight
\* Catalog lengths with a second slice of one address and of many.
SnapshotSizes == {1002, 2500}

InitSnapshot ==
    \E n \in SnapshotSizes :
        /\ deps = Collaborators
        /\ isOpen = TRUE
        /\ isUnlocked = "true"
        /\ selectedAddress = "acc1"
        /\ useTokenDetection = TRUE
        /\ tokenAddresses = {}
        /\ hiddenTokens = {}
        /\ detectedTokens = {}
        /\ tokenList = LongCatalog(n)
        /\ chainId = "0x1"
        /\ timers = SetIntervalTo({}, 0, DEFAULT_INTERVAL).timers
        /\ handle = SetIntervalTo({}, 0, DEFAULT_INTERVAL).handle
        /\ runs = << >>
        /\ detectedStore = {}
        /\ events = 0
        /\ lastOp = Op("session", "true", "norestart")

\* The user adds the first token of the second slice, or removes it again.
SnapshotStates ==
    {[StoreState EXCEPT !.tokens = held] : held \in {{}, {Addr(SLICE_SIZE + 1, "cs")}}}

\* Executions one after the other, as in FetchSpec, with known-token
\* notifications and catalog changes at any moment.
NextSnapshot ==
    \/ \E t \in timers : runs = << >> /\ Tick(t)
    \/ \E s \in SnapshotStates : TokensNotify(s)
    \/ \E n \in SnapshotSizes : CatalogRefresh(LongCatalog(n))
    \/ \E i \in 1..Len(runs) : \E result \in FetchReplies(runs[i]) : OracleReply(i, result)
    \/ \E i \in 1..Len(runs) : StoreDone(i)

SnapshotSpec == InitSnapshot /\ [][NextSnapshot]_vars

\* ================================================================ claims
Last(s) == s[Len(s)]

GateOpen == isOpen /\ isUnlocked = "true"

\* The addresses of l that match none of known, whatever their case.
Unknown(l, known) ==
    {a \in Range(l) : \A k \in known : ToLowerCase(k) # ToLowerCase(a)}

\* C1: at most one detectNewTokens execution is in flight at any time (a tick
\* or restart that finds one in flight starts none).
C1_SingleFlight == Len(runs) <= 1

\* C2: a timer tick, or a manual restartTokenDetection, that fires while the
\* session is not unlocked or the view is not open starts no execution: no
\* oracle call, no telemetry event and no store write is added anywhere.
C2_GateClosure ==
    [][(lastOp'.op \in {"tick", "restart"} /\ ~ GateOpen)
        => runs' = runs /\ detectedStore' = detectedStore]_vars

\* A tick has just fired on an open view whose session is locked.
C2_Witness ==
    /\ lastOp.op = "tick"
    /\ lastOp.res = "gated"
    /\ isOpen
    /\ isUnlocked = "false"

\* C5: the candidate list an execution starts with holds exactly the catalog
\* keys that match no held, hidden or detected address in any case, each once,
\* in the catalog's order; the catalog and the three lists are left as they were.
C5_SetExclusion ==
    [][lastOp'.res = "started" =>
        LET l == Last(runs').tokensToDetect
            known == tokenAddresses \cup hiddenTokens \cup detectedTokens
        IN  /\ Range(l) = Unknown(tokenList, known)
            /\ \A i, j \in 1..Len(l) : i < j =>
                   \E p, q \in 1..Len(tokenList) :
                       p < q /\ tokenList[p] = l[i] /\ tokenList[q] = l[j]
            /\ tokenList = << >> => l = << >>
            /\ UNCHANGED <<tokenList, tokenAddresses, hiddenTokens, detectedTokens>>]_vars

\* catalog = {A, B, C}, held = {A}, hidden = {B}, detected = {}: exactly {C}.
C5_Witness ==
    /\ lastOp.res = "started"
    /\ tokenList = << Addr(1, "lc"), Addr(2, "lc"), Addr(3, "lc") >>
    /\ tokenAddresses = {Addr(1, "cs")}
    /\ hiddenTokens = {Addr(2, "cs")}
    /\ detectedTokens = {}
    /\ Len(runs) = 1
    /\ runs[1].tokensToDetect = << Addr(3, "lc") >>

RECURSIVE Concat(_)
\* The token lists of the calls cs, one after the other.
Concat(cs) == IF cs = << >> THEN << >> ELSE cs[1].tokens \o Concat(Tail(cs))

\* C3: the batches an execution that met no failure passed to the oracle hold
\* at most 1000 addresses each and, one after the other, make up its whole
\* candidate list; 2500 candidates are queried as 1000, 1000 and 500.
C3_Partition ==
    [][lastOp'.res = "done" =>
        LET r == runs[lastOp'.arg[1]]
        IN  /\ \A c \in 1..Len(r.calls) : Len(r.calls[c].tokens) <= SLICE_SIZE
            /\ Concat(r.calls) = r.tokensToDetect
            /\ Len(r.tokensToDetect) = 2500 =>
                   [c \in 1..Len(r.calls) |-> Len(r.calls[c].tokens)] = <<1000, 1000, 500>>]_vars

\* The candidates from batch k on, batches counted in thousands.
FromBatch(l, k) == SubSeq(l, (k - 1) * SLICE_SIZE + 1, Len(l))

\* C4: when the oracle call of batch k fails, every discovery of the batches
\* before k has been reported and is in the store, the execution ends there
\* (no call for a later batch) as a warning, not a rejection, and the
\* candidates from batch k on are, in order, the last candidates of a tick that
\* fires next.
C4_PartialFailure ==
    [][lastOp'.op = "fail" =>
        LET i == lastOp'.arg[1]
            k == lastOp'.arg[2]
            r == runs[i]
        IN  /\ k = Len(r.calls)
            /\ \A b \in 1..(k - 1) :
                   r.replies[b] # {} =>
                       /\ r.replies[b] \subseteq detectedStore'
                       /\ \E e \in 1..Len(r.tracked) : r.tracked[e] = r.replies[b]
            /\ runs' = SubSeq(runs, 1, i - 1) \o SubSeq(runs, i + 1, Len(runs))
            /\ lastOp'.res = "warned"
            /\ LET rest == FromBatch(r.tokensToDetect, k)
                   next == TokensToDetect(tokenList', tokenAddresses', hiddenTokens',
                                          detectedTokens')
               IN  /\ Len(rest) <= Len(next)
                   /\ SubSeq(next, Len(next) - Len(rest) + 1, Len(next)) = rest]_vars

\* The second batch has just failed after a discovery of the first was stored.
C4_Witness ==
    /\ lastOp.op = "fail"
    /\ lastOp.arg[2] = 2
    /\ detectedStore # {}
    /\ detectedTokens = {}
    /\ Len(tokenList) = 2500

Fresh(tokens) ==
    \A a \in tokens : \A b \in detectedStore : ~ IsEqualCaseInsensitive(a, b)

\* C6 (amended): of two executions in succession, the second starting after the
\* store's content was mirrored back, the second has no address of the store
\* among its candidates and writes none the store already holds.
C6_NoResubmission ==
    [][/\ (lastOp'.res = "started" /\ Mirrored({}))
            => Fresh(Range(Last(runs').tokensToDetect))
       /\ lastOp'.res = "write" =>
            LET i == lastOp'.arg[1]
            IN  Mirrored(UNION Range(runs[i].writes))
                    => Fresh(Last(runs'[i].writes))]_vars

\* A later execution writes a discovery while the store is mirrored.
C6_Witness ==
    /\ lastOp.res = "write"
    /\ detectedStore # {}
    /\ Mirrored({})

\* C6 as stated: moreover the second execution's candidate list is empty.
C6_SecondRunEmpty ==
    [][/\ (lastOp'.res = "started" /\ Mirrored({}))
            => Fresh(Range(Last(runs').tokensToDetect))
       /\ lastOp'.res = "write" =>
            LET i == lastOp'.arg[1]
            IN  Mirrored(UNION Range(runs[i].writes))
                    => Fresh(Last(runs'[i].writes))
       /\ (lastOp'.res = "started" /\ detectedStore # {} /\ Mirrored({}))
            => Last(runs').tokensToDetect = << >>]_vars

\* C7: an execution that starts while an address is held, hidden or detected
\* does not have it among its candidates, and every oracle call an execution
\* makes, at its start or later, takes its addresses from those candidates, which
\* it never resolves again.
C7_KnownNotQueried ==
    [][/\ lastOp'.res = "started" =>
            LET r == Last(runs')
            IN  /\ \A a \in Range(r.tokensToDetect) :
                       \A k \in tokenAddresses' \cup hiddenTokens' \cup detectedTokens' :
                           ~ IsEqualCaseInsensitive(k, a)
                /\ Range(Last(r.calls).tokens) \subseteq Range(r.tokensToDetect)
       /\ lastOp'.res = "next" =>
            LET i == lastOp'.arg[1]
            IN  /\ runs'[i].tokensToDetect = runs[i].tokensToDetect
                /\ Range(Last(runs'[i].calls).tokens) \subseteq Range(runs[i].tokensToDetect)]_vars

\* An execution has started on a catalog with a detected token that is not among
\* its candidates, after a known-token notification.
C7_Witness ==
    /\ lastOp.res = "started"
    /\ \E a \in Range(tokenList) :
           /\ \E d \in detectedTokens : IsEqualCaseInsensitive(d, a)
           /\ a \notin Range(Last(runs).tokensToDetect)
    /\ Last(runs).tokensToDetect # << >>

\* C8: every oracle call of an execution queries the account that was selected
\* when the execution started, and no store write is outstanding for discoveries
\* of an account that is no longer the selected one.
C8_CapturedAccount ==
    \A i \in 1..Len(runs) :
        /\ \A c \in 1..Len(runs[i].calls) : runs[i].calls[c].account = runs[i].account0
        /\ runs[i].pc = "store" => Last(runs[i].calls).account = selectedAddress

\* C9: a preference notification whose pair equals the mirrored pair changes
\* nothing the controller keeps and starts no execution; so of two notifications
\* in succession with the same pair the second starts none.
C9_RestartCoalescing ==
    [][lastOp'.op = "preferences" =>
        /\ lastOp'.arg = <<selectedAddress, useTokenDetection>>
               => (UNCHANGED ctrlVars /\ lastOp'.res = "same")
        /\ (lastOp.op = "preferences" /\ lastOp.arg = lastOp'.arg)
               => runs' = runs]_vars

\* A notification repeated the mirrored pair while a restart would have run.
C9_Witness ==
    /\ lastOp.op = "preferences"
    /\ lastOp.res = "same"
    /\ GateOpen
    /\ selectedAddress # NoAccount
    /\ useTokenDetection

\* C10: a controller constructed without one of its collaborators has no live
\* timer, and no timer tick ever fires for it.
C10_ConfigurationFailure ==
    deps # Collaborators => (timers = {} /\ lastOp.op # "tick")

\* C11: when addDetectedTokens rejects for a batch, detectNewTokens itself
\* rejects (the execution ends there, nothing catches the error), the store is
\* left as it was, no token of the batch is in the detected mirror, or in the
\* store when all another execution stored was mirrored, and every token of the
\* batch is a candidate of a tick that fires next.
C11_PersistenceFailure ==
    [][lastOp'.op = "storefail" =>
        LET i == lastOp'.arg[1]
            r == runs[i]
            batch == Last(r.writes)
            earlier == UNION {r.writes[b] : b \in 1..(Len(r.writes) - 1)}
            next == TokensToDetect(tokenList', tokenAddresses', hiddenTokens',
                                   detectedTokens')
        IN  /\ lastOp'.res = "rejected"
            /\ runs' = SubSeq(runs, 1, i - 1) \o SubSeq(runs, i + 1, Len(runs))
            /\ detectedStore' = detectedStore
            /\ \A a \in batch : \A d \in detectedTokens' : ~ IsEqualCaseInsensitive(d, a)
            /\ Mirrored(earlier) => Fresh(batch)
            /\ Len(SelectSeq(next, LAMBDA a : a \in batch)) = Cardinality(batch)]_vars

\* The write of the first batch's discovery has just been rejected.
C11_Witness ==
    /\ lastOp.op = "storefail"
    /\ lastOp.res = "rejected"
    /\ detectedStore = {}
    /\ runs = << >>
    /\ Len(tokenList) = 2500

\* C12: no oracle call is made with an empty list of addresses, and an
\* execution with at most 1000 candidates (none, or exactly 1000) makes at most
\* one oracle call.
C12_NoEmptyBatch ==
    \A i \in 1..Len(runs) :
        /\ \A c \in 1..Len(runs[i].calls) : runs[i].calls[c].tokens # << >>
        /\ Len(runs[i].tokensToDetect) <= SLICE_SIZE => Len(runs[i].calls) <= 1

\* C13: an execution has at most one oracle call outstanding (one while it
\* awaits the oracle, none while it awaits the store), and the call for batch
\* k+1 is made only when every call up to k has returned and every discovery
\* of those batches has been reported and written to the store.
C13_SequentialBatches ==
    [][/\ \A i \in 1..Len(runs') :
            LET r == runs'[i]
            IN  Len(r.calls) - Len(r.replies) = IF r.pc = "oracle" THEN 1 ELSE 0
       /\ lastOp'.res = "next" =>
            LET i == lastOp'.arg[1]
                k == lastOp'.arg[2]
                r == runs'[i]
            IN  /\ Len(r.calls) = k + 1
                /\ Len(r.replies) = k
                /\ Len(runs[i].calls) = k
                /\ \A b \in 1..k :
                       r.replies[b] # {} =>
                           /\ r.replies[b] \subseteq detectedStore'
                           /\ \E e \in 1..Len(r.tracked) : r.tracked[e] = r.replies[b]]_vars

\* The call for the second batch has just been made, after the store took the
\* discovery of the first.
C13_Witness ==
    /\ lastOp.op = "stored"
    /\ lastOp.res = "next"
    /\ Len(runs) = 1
    /\ Len(runs[1].calls) = 2
    /\ Len(runs[1].calls[2].tokens) = 1499
    /\ detectedStore # {}

\* C14: when the oracle's reply to a batch names at least one address, the
\* execution reports exactly one telemetry event and makes exactly one
\* addDetectedTokens call, each with all the addresses of the reply; when the
\* reply is empty or absent it reports nothing and writes nothing.
C14_OneEventOneWrite ==
    [][lastOp'.op = "reply" =>
        LET i == lastOp'.arg[1]
            r == runs[i]
        IN  /\ lastOp'.res \in {"write", "next", "done"}
            /\ lastOp'.res = "write" =>
                   /\ Last(runs'[i].replies) # {}
                   /\ runs'[i].tracked = Append(r.tracked, Last(runs'[i].replies))
                   /\ runs'[i].writes = Append(r.writes, Last(runs'[i].replies))
            /\ lastOp'.res = "next" =>
                   /\ runs'[i].replies[lastOp'.arg[2]] = {}
                   /\ runs'[i].tracked = r.tracked
                   /\ runs'[i].writes = r.writes]_vars

\* C15: a session notification that turns the mirror from not unlocked to
\* unlocked calls restartTokenDetection: with the view open and an account
\* selected it calls detectNewTokens once (at most one execution is added, and
\* one is added when detection is enabled and every collaborator is there) and
\* arms the timer; otherwise it starts nothing.  One that turns it from
\* unlocked to locked changes the mirror only, and one that repeats the
\* mirrored value changes nothing.
C15_SessionNotifications ==
    [][lastOp'.op = "session" =>
        LET u == lastOp'.arg
            others == <<isOpen, selectedAddress, useTokenDetection, tokenAddresses,
                        hiddenTokens, detectedTokens, timers, handle, runs>>
        IN  /\ isUnlocked' = u
            /\ (u = "true" /\ isUnlocked # "true") =>
                   IF isOpen /\ selectedAddress # NoAccount
                   THEN /\ lastOp'.res \in {"started", "disabled", "threw", "warned"}
                        /\ \/ runs' = runs
                           \/ /\ Len(runs') = Len(runs) + 1
                              /\ SubSeq(runs', 1, Len(runs)) = runs
                              /\ Last(runs').trigger = "restart"
                              /\ Last(runs').account0 = selectedAddress
                        /\ (/\ useTokenDetection
                            /\ IsTokenDetectionEnabledForNetwork(chainId)
                            /\ deps = Collaborators)
                               => (lastOp'.res = "started" /\ Len(runs') = Len(runs) + 1)
                        /\ \E t \in timers' : t.id = handle' /\ t.period = DEFAULT_INTERVAL
                   ELSE lastOp'.res = "norestart" /\ UNCHANGED others
            /\ (u = "false" /\ isUnlocked = "true") =>
                   lastOp'.res = "locked" /\ UNCHANGED others
            /\ u = isUnlocked =>
                   lastOp'.res = "same" /\ UNCHANGED ctrlVars]_vars

\* The session has just been unlocked on an open view with an account selected,
\* and one execution was started.
C15_Witness ==
    /\ lastOp.op = "session"
    /\ lastOp.arg = "true"
    /\ lastOp.res = "started"
    /\ Len(runs) = 1
    /\ runs[1].trigger = "restart"
    /\ timers # {}

\* C16: the controller has at most one live timer, the one this._handle names;
\* an interval assignment with a positive duration, or a restart that goes
\* through, leaves exactly one live timer, of the duration assigned, and an
\* assignment of zero leaves none.
C16_OneTimer ==
    [][/\ Cardinality(timers) <= 1
       /\ Cardinality(timers') <= 1
       /\ \A t \in timers' : t.id = handle'
       /\ lastOp'.op = "interval" =>
              timers' = IF lastOp'.arg = 0 THEN {}
                        ELSE {[id |-> handle', period |-> lastOp'.arg]}
       /\ lastOp'.op \in {"restart", "preferences", "session"} =>
              IF lastOp'.res \in {"norestart", "same", "locked"}
              THEN UNCHANGED <<timers, handle>>
              ELSE timers' = {[id |-> handle', period |-> DEFAULT_INTERVAL]}]_vars

\* A zero interval has just been assigned to a controller that had a timer.
C16_Witness ==
    /\ lastOp.op = "interval"
    /\ lastOp.arg = 0
    /\ handle # 0
    /\ timers = {}
    /\ events >= 2

\* C17: an execution resolves its candidates once, from the catalog and the
\* mirrors as they are when it starts; a known-token notification or a catalog
\* change that arrives while it awaits leaves it as it is, and the call it
\* makes for a later batch is the slice of the candidates it started with.
C17_Snapshot ==
    [][/\ lastOp'.res = "started" =>
            Last(runs').tokensToDetect =
                TokensToDetect(tokenList', tokenAddresses', hiddenTokens', detectedTokens')
       /\ lastOp'.op \in {"tokens", "catalog"} => runs' = runs
       /\ lastOp'.res = "next" =>
            LET i == lastOp'.arg[1]
                k == lastOp'.arg[2]
            IN  /\ runs'[i].tokensToDetect = runs[i].tokensToDetect
                /\ Last(runs'[i].calls).tokens =
                       SliceOfTokensToDetect(runs[i].tokensToDetect)[k + 1]]_vars

\* The second batch of 2500 candidates has just been queried, with a token the
\* user added while the first call was awaited, after the catalog shrank.
C17_Witness ==
    /\ lastOp.res = "next"
    /\ Len(runs) = 1
    /\ Addr(SLICE_SIZE + 1, "cs") \in tokenAddresses
    /\ Len(tokenList) = 1002
    /\ Len(runs[1].calls) = 2
    /\ Len(runs[1].calls[2].tokens) = 1499
    /\ runs[1].calls[2].tokens[1] = Addr(SLICE_SIZE + 1, "lc")

\* C18: a controller without a live timer (constructed with a zero interval, or
\* assigned one) gets a timer only by an interval assignment: no restart,
\* preference notification or session notification arms it, so no tick fires
\* for it.
C18_IdleStaysIdle ==
    [][(timers = {} /\ lastOp'.op # "interval")
        => (timers' = {} /\ lastOp'.op # "tick")]_vars

\* C19: a tick, or a restart (manual, or from a preference or session
\* notification), that fires while the useTokenDetection mirror is false or the
\* network's chain id is not one token detection supports starts no execution
\* and writes nothing, whatever the activity gate.
C19_DetectionDisabled ==
    [][(/\ lastOp'.op \in {"tick", "restart", "preferences", "session"}
        /\ (~ useTokenDetection' \/ ~ IsTokenDetectionEnabledForNetwork(chainId')))
        => /\ runs' = runs
           /\ detectedStore' = detectedStore
           /\ lastOp'.res # "started"]_vars

\* A tick has just fired on an open, unlocked view with detection switched off.
C19_Witness ==
    /\ lastOp.op = "tick"
    /\ lastOp.res = "disabled"
    /\ GateOpen
    /\ ~ useTokenDetection
    /\ IsTokenDetectionEnabledForNetwork(chainId)
    /\ tokenList # << >>

\* C20: an oracle call is made, and an addDetectedTokens call is made, only
\* while the view is open and the session unlocked: an execution in flight when
\* the gate closes makes no call for its remaining batches.
C20_GatedInFlight ==
    [][lastOp'.res \in {"started", "next", "write"} => GateOpen']_vars

====
